---- MODULE Spec2Model ----
(***************************************************************************)
(* A model of src/main.py: a single-threaded HTTP/1.1 server.              *)
(*                                                                         *)
(* Representation of Python values:                                        *)
(*   str    a sequence of Unicode code points (naturals)                   *)
(*   bytes  a sequence of naturals in 0..255                               *)
(*   dict   a sequence of <<key, value>> pairs in insertion order          *)
(* Literals of the source are written as TLA+ strings and converted to a   *)
(* sequence of code points by S.                                           *)
(***************************************************************************)
EXTENDS Integers, Sequences, FiniteSets, TLC

\* ------------------------------------------------------------------ bounds

\* Connections the model lets the accept loop take.
MaxConns == 2
\* recv(1024): the size of the single read.
BUFSIZE == 1024

\* ------------------------------------------------------------ text values

\* The printable ASCII characters: code points 32..95, and 97..126.
AsciiLow == " !\"#$%&'()*+,-./0123456789:;<=>?@ABCDEFGHIJKLMNOPQRSTUVWXYZ[\\]^_"
AsciiHigh == "abcdefghijklmnopqrstuvwxyz{|}~"

\* The code point of a one-character TLA+ string.
Ord(c) ==
  IF c = "\r" THEN 13
  ELSE IF c = "\n" THEN 10
  ELSE IF \E i \in 1..Len(AsciiLow) : SubSeq(AsciiLow, i, i) = c
       THEN 31 + (CHOOSE i \in 1..Len(AsciiLow) : SubSeq(AsciiLow, i, i) = c)
  ELSE 96 + (CHOOSE i \in 1..Len(AsciiHigh) : SubSeq(AsciiHigh, i, i) = c)

\* A source literal as a str (sequence of code points).
S(lit) == [i \in 1..Len(lit) |-> Ord(SubSeq(lit, i, i))]

CRLF == S("\r\n")
SP == S(" ")
COLON_SP == S(": ")
SLASH == S("/")

\* s[from..] starts with sep.
StartsAt(s, sep, from) ==
  /\ from + Len(sep) - 1 <= Len(s)
  /\ SubSeq(s, from, from + Len(sep) - 1) = sep

\* str.find(sep) + 1: the index of the first occurrence of sep in s, 0 if none.
Find(s, sep) ==
  IF \E i \in 1..Len(s) : StartsAt(s, sep, i)
  THEN CHOOSE i \in 1..Len(s) :
         /\ StartsAt(s, sep, i)
         /\ \A j \in 1..(i - 1) : ~StartsAt(s, sep, j)
  ELSE 0

RECURSIVE Split(_, _)
\* str.split(sep): every piece between occurrences of sep ("" gives <<"">>).
Split(s, sep) ==
  LET i == Find(s, sep)
  IN IF i = 0 THEN <<s>>
     ELSE <<SubSeq(s, 1, i - 1)>> \o Split(SubSeq(s, i + Len(sep), Len(s)), sep)

\* Mutant of Split1: the line is split at every occurrence of sep (no
\* maxsplit).
Split1_AllOccurrences(s, sep) == Split(s, sep)

\* str.split(sep, 1): split at the first occurrence of sep only.
Split1(s, sep) ==
  LET i == Find(s, sep)
  IN IF i = 0 THEN <<s>>
     ELSE <<SubSeq(s, 1, i - 1), SubSeq(s, i + Len(sep), Len(s))>>

RECURSIVE IntToStr(_)
\* str(n) for a natural n: its decimal digits.
IntToStr(n) ==
  IF n < 10 THEN <<48 + n>>
  ELSE IntToStr(n \div 10) \o <<48 + (n % 10)>>

\* The UTF-8 bytes of one code point.
Utf8Char(c) ==
  IF c < 128 THEN <<c>>
  ELSE IF c < 2048 THEN <<192 + (c \div 64), 128 + (c % 64)>>
  ELSE IF c < 65536
       THEN <<224 + (c \div 4096), 128 + ((c \div 64) % 64), 128 + (c % 64)>>
  ELSE <<240 + (c \div 262144), 128 + ((c \div 4096) % 64),
         128 + ((c \div 64) % 64), 128 + (c % 64)>>

RECURSIVE Utf8Encode(_)
\* str.encode('utf-8'): the bytes of each code point, in order (the halves
\* of s are encoded one after the other).
Utf8Encode(s) ==
  IF Len(s) = 0 THEN <<>>
  ELSE IF Len(s) = 1 THEN Utf8Char(s[1])
  ELSE LET h == Len(s) \div 2
       IN Utf8Encode(SubSeq(s, 1, h)) \o Utf8Encode(SubSeq(s, h + 1, Len(s)))

IsCont(b) == b >= 128 /\ b <= 191

\* The length of the UTF-8 sequence a lead byte starts, 0 for a byte that
\* starts none.
Utf8Width(b1) ==
  IF b1 < 128 THEN 1
  ELSE IF b1 >= 194 /\ b1 <= 223 THEN 2
  ELSE IF b1 >= 224 /\ b1 <= 239 THEN 3
  ELSE IF b1 >= 240 /\ b1 <= 244 THEN 4
  ELSE 0

\* The sequence of Utf8Width(b[i]) bytes at i is a well-formed character.
Utf8WellFormedAt(b, i) ==
  LET n == Utf8Width(b[i])
  IN /\ n > 0
     /\ i + n - 1 <= Len(b)
     /\ \A j \in (i + 1)..(i + n - 1) : IsCont(b[j])
     /\ (b[i] = 224 => b[i + 1] >= 160)
     /\ (b[i] = 237 => b[i + 1] <= 159)
     /\ (b[i] = 240 => b[i + 1] >= 144)
     /\ (b[i] = 244 => b[i + 1] <= 143)

\* The code point of the well-formed character at i.
Utf8CodePointAt(b, i) ==
  LET n == Utf8Width(b[i])
  IN IF n = 1 THEN b[i]
     ELSE IF n = 2 THEN (b[i] - 192) * 64 + (b[i + 1] - 128)
     ELSE IF n = 3
          THEN (b[i] - 224) * 4096 + (b[i + 1] - 128) * 64 + (b[i + 2] - 128)
     ELSE (b[i] - 240) * 262144 + (b[i + 1] - 128) * 4096
          + (b[i + 2] - 128) * 64 + (b[i + 3] - 128)

\* bytes.decode('utf-8'): [ok, text]; ok = FALSE is UnicodeDecodeError.
\* In well-formed UTF-8 the characters start exactly at the bytes that are
\* not continuation bytes, and each is followed by its continuation bytes only.
Utf8Decode(b) ==
  LET leads == {i \in 1..Len(b) : ~IsCont(b[i])}
      ok == /\ (Len(b) > 0 => 1 \in leads)
            /\ \A i \in leads :
                 /\ Utf8WellFormedAt(b, i)
                 /\ LET nxt == i + Utf8Width(b[i])
                    IN nxt > Len(b) \/ nxt \in leads
      marked == [i \in 1..Len(b) |->
                   IF IsCont(b[i]) THEN -1 ELSE Utf8CodePointAt(b, i)]
      IsChar(c) == c >= 0
  IN IF ~ok THEN [ok |-> FALSE, text |-> <<>>]
     ELSE [ok |-> TRUE, text |-> SelectSeq(marked, IsChar)]

\* bytes.decode('latin-1'): byte k is code point k; never fails.
Latin1Decode(b) == [i \in 1..Len(b) |-> b[i]]

RECURSIVE LStrip(_, _)
\* str.lstrip(ch): every leading ch removed.
LStrip(s, ch) ==
  IF s # <<>> /\ <<Head(s)>> = ch THEN LStrip(Tail(s), ch) ELSE s

\* dict[k] = v: a present key keeps its position and takes the new value.
DictSet(d, k, v) ==
  IF \E i \in 1..Len(d) : d[i][1] = k
  THEN [i \in 1..Len(d) |-> IF d[i][1] = k THEN <<k, v>> ELSE d[i]]
  ELSE Append(d, <<k, v>>)

\* ------------------------------------------------------- parse_request

ParseError == [ok |-> FALSE, method |-> <<>>, path |-> <<>>,
               http_version |-> <<>>, headers |-> <<>>]

RECURSIVE ParseHeaders_SkipMalformed(_, _, _)
\* Mutant of ParseHeaders: a line without ": " is skipped instead of raising.
ParseHeaders_SkipMalformed(lines, i, headers) ==
  IF i > Len(lines) THEN [ok |-> TRUE, headers |-> headers]
  ELSE IF lines[i] = <<>> THEN [ok |-> TRUE, headers |-> headers]
  ELSE LET kv == Split1(lines[i], COLON_SP)
       IN IF Len(kv) # 2
          THEN ParseHeaders_SkipMalformed(lines, i + 1, headers)
          ELSE ParseHeaders_SkipMalformed(lines, i + 1,
                                          DictSet(headers, kv[1], kv[2]))

RECURSIVE ParseHeaders(_, _, _)
\* The header loop of parse_request over lines[i..]: stops at the first empty
\* line; a line that does not split in two at ": " is a ValueError.
ParseHeaders(lines, i, headers) ==
  IF i > Len(lines) THEN [ok |-> TRUE, headers |-> headers]
  ELSE IF lines[i] = <<>> THEN [ok |-> TRUE, headers |-> headers]
  ELSE LET kv == Split1(lines[i], COLON_SP)
       IN IF Len(kv) # 2 THEN [ok |-> FALSE, headers |-> <<>>]
          ELSE ParseHeaders(lines, i + 1, DictSet(headers, kv[1], kv[2]))

\* parse_request(request_data): (method, path, http_version, headers), or a
\* ValueError (ok = FALSE) from one of the two unpacking assignments.
parse_request(request_data) ==
  LET lines == Split(request_data, CRLF)
      request_line == lines[1]
      tokens == Split(request_line, SP)
  IN IF Len(tokens) # 3 THEN ParseError
     ELSE LET hs == ParseHeaders(lines, 2, <<>>)
          IN IF ~hs.ok THEN ParseError
             ELSE [ok |-> TRUE, method |-> tokens[1], path |-> tokens[2],
                   http_version |-> tokens[3], headers |-> hs.headers]

\* ---------------------------------------------------- get_content_type

\* The last "." of the final path component, 0 if it has none (a leading dot
\* of the component is not an extension).
ExtIndex(file_path) ==
  LET slashes == {i \in 1..Len(file_path) : file_path[i] = 47}
      base == IF slashes = {} THEN 1
              ELSE 1 + (CHOOSE i \in slashes : \A j \in slashes : j <= i)
      dots == {i \in (base + 1)..Len(file_path) : file_path[i] = 46}
  IN IF dots = {} THEN 0 ELSE CHOOSE i \in dots : \A j \in dots : j <= i

ExtTxt == S(".txt")
ExtHtml == S(".html")
TextPlain == S("text/plain")
TextHtml == S("text/html")
OctetStream == S("application/octet-stream")

\* mimetypes.guess_type(file_path)[0]: the type of the extension in the
\* standard table (the entries the model's paths use), <<>> for None.
GuessType(file_path) ==
  LET i == ExtIndex(file_path)
      ext == IF i = 0 THEN <<>> ELSE SubSeq(file_path, i, Len(file_path))
  IN IF ext = ExtTxt THEN TextPlain
     ELSE IF ext = ExtHtml THEN TextHtml
     ELSE <<>>

\* get_content_type(file_path): content_type or 'application/octet-stream'
get_content_type(file_path) ==
  LET content_type == GuessType(file_path)
  IN IF content_type # <<>> THEN content_type
     ELSE OctetStream

\* ---------------------------------------------------- generate_response

\* The reason phrases of status_messages, and the default of its lookup.
ReasonOK == S("OK")
ReasonNotFound == S("Not Found")
ReasonInternal == S("Internal Server Error")
ReasonUnknown == S("Unknown Status")
HttpVersionPrefix == S("HTTP/1.1 ")

\* Mutant of StatusMessage: the lookup defaults to the 200 phrase.
StatusMessage_DefaultOK(status_code) ==
  CASE status_code = 200 -> ReasonOK
    [] status_code = 404 -> ReasonNotFound
    [] status_code = 500 -> ReasonInternal
    [] OTHER -> ReasonOK

\* status_messages.get(status_code, 'Unknown Status')
StatusMessage(status_code) ==
  CASE status_code = 200 -> ReasonOK
    [] status_code = 404 -> ReasonNotFound
    [] status_code = 500 -> ReasonInternal
    [] OTHER -> ReasonUnknown

RECURSIVE HeaderLines_NoSpace(_)
\* Mutant of HeaderLines: name and value are joined by ":" without the space.
HeaderLines_NoSpace(headers) ==
  IF headers = <<>> THEN <<>>
  ELSE Head(headers)[1] \o <<58>> \o Head(headers)[2] \o CRLF
       \o HeaderLines_NoSpace(Tail(headers))

RECURSIVE HeaderLines(_)
\* The loop building header_lines: "<name>: <value>\r\n" per entry, in order.
HeaderLines(headers) ==
  IF headers = <<>> THEN <<>>
  ELSE Head(headers)[1] \o COLON_SP \o Head(headers)[2] \o CRLF
       \o HeaderLines(Tail(headers))

\* generate_response(status_code, headers, body): the response as bytes.
generate_response(status_code, headers, body) ==
  LET status_message == StatusMessage(status_code)
      response_line == HttpVersionPrefix \o IntToStr(status_code) \o SP
                       \o status_message \o CRLF
      header_lines == HeaderLines(headers)
      response == response_line \o header_lines \o CRLF \o body
  IN Utf8Encode(response)

\* ------------------------------------------------------------ the inputs

ReqPaths == {S("/"), S("/a.txt"), S("//a.txt"), S("a.txt"), S("/bin"),
             S("/d"), S("/missing.txt"), S("//")}

\* A method, an HTTP version, and what follows the request line (headers,
\* the empty line, a body).
Envelopes ==
  {<<S("GET"), S("HTTP/1.1"), S("\r\n")>>,
   <<S("GET"), S("HTTP/1.1"), S("Host: a\r\n\r\n")>>,
   <<S("POST"), S("HTTP/1.0"), S("A: 1\r\nA: x: y\r\n\r\nbody line")>>,
   <<S("HEAD"), S("HTTP/1.1"), S("")>>}

WellFormedTexts ==
  {e[1] \o SP \o p \o SP \o e[2] \o CRLF \o e[3] :
     p \in ReqPaths, e \in Envelopes}

MalformedTexts ==
  {S(""), S("GET /"), S("GET / HTTP/1.1 extra"),
   S("GET /a.txt HTTP/1.1\r\nNoColon\r\n\r\n"),
   S("GET / HTTP/1.1\r\nHost:a\r\n\r\n")}

\* Bytes that are not UTF-8.
UndecodableBytes == <<255, 254>>

\* A request longer than one read: a request for a.txt with a body that
\* takes it past BUFSIZE bytes.
LongRequest ==
  LET head == Utf8Encode(S("GET /a.txt HTTP/1.1\r\n\r\n"))
  IN head \o [i \in 1..(BUFSIZE + 8 - Len(head)) |-> 120]

\* What a client may have put on the wire.
Requests ==
  {Utf8Encode(r) : r \in WellFormedTexts \cup MalformedTexts}
    \cup {UndecodableBytes, LongRequest}

\* The file system the server runs in: paths relative to the working directory.
FsPaths == {S("a.txt"), S("bin"), S("d")}
Absent == [kind |-> "absent", readable |-> FALSE, content |-> <<>>]
InitialFs ==
  [p \in FsPaths |->
     IF p = S("a.txt")
       THEN [kind |-> "file", readable |-> TRUE, content |-> Utf8Encode(S("hi\n"))]
     ELSE IF p = S("bin")
       THEN [kind |-> "file", readable |-> TRUE, content |-> <<65, 233, 255>>]
     ELSE [kind |-> "dir", readable |-> TRUE, content |-> <<>>]]

\* -------------------------------------------------------------- the state

VARIABLES
  server_socket,  \* the listening socket: "none" (not created) | "created"
                  \* (open, not listening) | "listening" | "closed"
  pc,             \* where the main loop / handle_client stands
  exc,            \* the exception propagating out of handle_client, "none" if none
  stopCause,      \* why the accept loop ended, "none" while it runs
  nconn,          \* connections accepted so far
  openConns,      \* ids of the accepted connections not yet closed
  client,         \* the current (or last) client socket
  events,         \* the operations performed for the current connection, in order
  sent,           \* each sendall on the current connection: [data, ok]
  request_data,   \* handle_client: the bytes recv returned
  parsed,         \* handle_client: the result of parse_request
  ssf_path,       \* serve_static_file: its path argument
  found,          \* serve_static_file: what os.path.exists returned
  io_failed,      \* serve_static_file: open/read raised
  response,       \* the local variable response of the function running
  fs,             \* the file system
  call,           \* the arguments of a generate_response call studied alone
  ret             \* its result

handlerVars == <<exc, client, events, sent, request_data, parsed, ssf_path,
                 found, io_failed, response>>
serverVars == <<server_socket, pc, stopCause, nconn, openConns>>
fsVars == <<fs>>
pureVars == <<call, ret>>
serverVarsButPc == <<server_socket, stopCause, nconn, openConns>>
vars == <<serverVars, handlerVars, fsVars, pureVars>>

NoClient == [id |-> 0, inbound |-> <<>>, closes |-> 0]
NoCall == [status_code |-> 0, headers |-> <<>>, body |-> <<>>]
NoRet == [done |-> FALSE, value |-> <<>>]

\* __main__ is about to call start_server.
Init ==
  /\ server_socket = "none"
  /\ pc = "start"
  /\ exc = "none"
  /\ stopCause = "none"
  /\ nconn = 0
  /\ openConns = {}
  /\ client = NoClient
  /\ events = <<>>
  /\ sent = <<>>
  /\ request_data = <<>>
  /\ parsed = ParseError
  /\ ssf_path = <<>>
  /\ found = FALSE
  /\ io_failed = FALSE
  /\ response = <<>>
  /\ fs = InitialFs
  /\ call = NoCall
  /\ ret = NoRet

\* ------------------------------------------------------------- responses

ContentType == S("Content-Type")
ContentLength == S("Content-Length")
Greeting == S("<html><body><h1>Hello, world!</h1></body></html>")

\* handle_client, the branch for path "/": the response it builds.
RootResponse ==
  LET response_body == Greeting
      headers == << <<ContentType, TextHtml>>,
                    <<ContentLength, IntToStr(Len(response_body))>> >>
  IN generate_response(200, headers, response_body)

\* serve_static_file, the branch of an existing file with the bytes read.
FileResponse(path, content) ==
  LET headers == << <<ContentType, get_content_type(path)>>,
                    <<ContentLength, IntToStr(Len(content))>> >>
  IN generate_response(200, headers, Latin1Decode(content))

\* Mutant of NotFoundResponse: the 404 response carries a Content-Type header.
NotFoundResponse_WithHeader ==
  generate_response(404, << <<ContentType, TextPlain>> >>, S("404 Not Found"))

NotFoundResponse == generate_response(404, <<>>, S("404 Not Found"))

ErrorResponse == generate_response(500, <<>>, S("500 Internal Server Error"))

\* os.path.exists(path): false for a missing path (and for a failing stat).
exists(path) == path \in FsPaths /\ fs[path].kind # "absent"

\* open(path, 'rb') and f.read() succeed.
Readable(path) ==
  path \in FsPaths /\ fs[path].kind = "file" /\ fs[path].readable

\* ----------------------------------------------------------- the actions

\* The outcomes of a blocking socket call: it returns, it raises an OSError,
\* or the process is interrupted in it (KeyboardInterrupt).
Outcomes == {"ok", "error", "interrupt"}

\* client_socket.sendall(data) at position pc, with the given outcome:
\* pcOk is where control goes when it returns, pcErr where a raised Exception
\* is handled; excErr is the exception then propagating out of handle_client.
SendAll(data, outcome, pcOk, pcErr, excErr) ==
  /\ sent' = Append(sent, [data |-> data, ok |-> (outcome = "ok")])
  /\ events' = Append(events, "sendall")
  /\ pc' = IF outcome = "ok" THEN pcOk
           ELSE IF outcome = "error" THEN pcErr
           ELSE "hc_finally"
  /\ exc' = IF outcome = "ok" THEN exc
            ELSE IF outcome = "error" THEN excErr
            ELSE "KeyboardInterrupt"

\* start_server, called by __main__ before its try statement: the socket is
\* created, configured, bound and put to listen. An OSError of socket()
\* leaves no socket; an OSError of setsockopt, bind or listen leaves
\* start_server with the socket created and nothing closing it, and ends
\* the process, as no try statement encloses the call.
StartServer ==
  /\ pc = "start"
  /\ \E outcome \in {"ok", "socket_failed", "bind_failed"} :
       /\ server_socket' = IF outcome = "ok" THEN "listening"
                           ELSE IF outcome = "bind_failed" THEN "created"
                           ELSE "none"
       /\ pc' = IF outcome = "ok" THEN "accept" ELSE "terminated"
       /\ stopCause' = IF outcome = "ok" THEN "none" ELSE "setup_failed"
  /\ UNCHANGED <<nconn, openConns, handlerVars, fsVars, pureVars>>

\* server_socket.accept() returns a new client socket.
Accept ==
  /\ pc = "accept"
  /\ server_socket = "listening"
  /\ nconn < MaxConns
  /\ \E req \in Requests :
       client' = [id |-> nconn + 1, inbound |-> req, closes |-> 0]
  /\ nconn' = nconn + 1
  /\ openConns' = openConns \cup {nconn + 1}
  /\ pc' = "recv"
  /\ exc' = "none"
  /\ events' = <<>>
  /\ sent' = <<>>
  /\ request_data' = <<>>
  /\ parsed' = ParseError
  /\ ssf_path' = <<>>
  /\ found' = FALSE
  /\ io_failed' = FALSE
  /\ response' = <<>>
  /\ UNCHANGED <<server_socket, stopCause, fsVars, pureVars>>

\* server_socket.accept() raises, or the process is interrupted while it
\* waits: the loop ends and the finally clause closes the listening socket.
AcceptStops ==
  /\ pc = "accept"
  /\ server_socket = "listening"
  /\ \E cause \in {"accept_failed", "interrupted"} : stopCause' = cause
  /\ server_socket' = "closed"
  /\ pc' = "terminated"
  /\ UNCHANGED <<nconn, openConns, handlerVars, fsVars, pureVars>>

\* Mutant of Recv: everything the client sent is read (a read loop).
Recv_ReadAll ==
  /\ pc = "recv"
  /\ \E outcome \in Outcomes :
       /\ request_data' = IF outcome = "ok" THEN client.inbound ELSE <<>>
       /\ pc' = IF outcome = "ok" THEN "parse"
                ELSE IF outcome = "error" THEN "hc_except"
                ELSE "hc_finally"
       /\ exc' = IF outcome = "interrupt" THEN "KeyboardInterrupt" ELSE exc
  /\ events' = Append(events, "recv")
  /\ UNCHANGED <<server_socket, stopCause, nconn, openConns, client, sent,
                 parsed, ssf_path, found, io_failed, response, fsVars,
                 pureVars>>

\* handle_client: client_socket.recv(1024)
Recv ==
  /\ pc = "recv"
  /\ \E outcome \in Outcomes :
       /\ request_data' =
            IF outcome = "ok"
            THEN SubSeq(client.inbound, 1,
                        IF Len(client.inbound) < BUFSIZE
                        THEN Len(client.inbound) ELSE BUFSIZE)
            ELSE <<>>
       /\ pc' = IF outcome = "ok" THEN "parse"
                ELSE IF outcome = "error" THEN "hc_except"
                ELSE "hc_finally"
       /\ exc' = IF outcome = "interrupt" THEN "KeyboardInterrupt" ELSE exc
  /\ events' = Append(events, "recv")
  /\ UNCHANGED <<server_socket, stopCause, nconn, openConns, client, sent,
                 parsed, ssf_path, found, io_failed, response, fsVars,
                 pureVars>>

\* Mutant of StaticPath: only the first leading "/" is removed.
StaticPath_StripOne(path) ==
  IF path # <<>> /\ <<Head(path)>> = SLASH THEN Tail(path) ELSE path

\* The path handle_client passes to serve_static_file.
StaticPath(path) == LStrip(path, SLASH)

\* Mutant of ParseAndRoute: a method other than GET is refused as an error.
ParseAndRoute_MethodDispatch ==
  /\ pc = "parse"
  /\ LET decoded == Utf8Decode(request_data)
         req == IF decoded.ok THEN parse_request(decoded.text) ELSE ParseError
     IN /\ parsed' = req
        /\ IF ~req.ok \/ req.method # <<71, 69, 84>>
           THEN /\ pc' = "hc_except"
                /\ UNCHANGED <<ssf_path, response>>
           ELSE IF req.path = SLASH
           THEN /\ response' = RootResponse
                /\ pc' = "hc_finally"
                /\ UNCHANGED ssf_path
           ELSE /\ pc' = "ssf_exists"
                /\ ssf_path' = StaticPath(req.path)
                /\ UNCHANGED response
  /\ events' = Append(events, "parse")
  /\ UNCHANGED <<serverVarsButPc, exc, client, sent, request_data, found,
                 io_failed, fsVars, pureVars>>

\* Mutant of ParseAndRoute: the root path is served from the file system
\* like any other path.
ParseAndRoute_RootFromFile ==
  /\ pc = "parse"
  /\ LET decoded == Utf8Decode(request_data)
         req == IF decoded.ok THEN parse_request(decoded.text) ELSE ParseError
     IN /\ parsed' = req
        /\ IF ~req.ok
           THEN /\ pc' = "hc_except"
                /\ UNCHANGED <<ssf_path, response>>
           ELSE /\ pc' = "ssf_exists"
                /\ ssf_path' = StaticPath(req.path)
                /\ UNCHANGED response
  /\ events' = Append(events, "parse")
  /\ UNCHANGED <<serverVarsButPc, exc, client, sent, request_data, found,
                 io_failed, fsVars, pureVars>>

\* handle_client: decode, parse_request, and the choice of the branch.
ParseAndRoute ==
  /\ pc = "parse"
  /\ LET decoded == Utf8Decode(request_data)
         req == IF decoded.ok THEN parse_request(decoded.text) ELSE ParseError
     IN /\ parsed' = req
        /\ IF ~req.ok
           THEN /\ pc' = "hc_except"
                /\ UNCHANGED <<ssf_path, response>>
           ELSE IF req.path = SLASH
           THEN \* response is assigned and the try block ends: no sendall
                /\ response' = RootResponse
                /\ pc' = "hc_finally"
                /\ UNCHANGED ssf_path
           ELSE /\ pc' = "ssf_exists"
                /\ ssf_path' = StaticPath(req.path)
                /\ UNCHANGED response
  /\ events' = Append(events, "parse")
  /\ UNCHANGED <<serverVarsButPc, exc, client, sent, request_data, found,
                 io_failed, fsVars, pureVars>>

\* serve_static_file: os.path.exists(path), and the 404 branch.
SsfExists ==
  /\ pc = "ssf_exists"
  /\ found' = exists(ssf_path)
  /\ IF exists(ssf_path)
     THEN /\ pc' = "ssf_open"
          /\ UNCHANGED response
     ELSE /\ response' = NotFoundResponse
          /\ pc' = "ssf_send"
  /\ events' = Append(events, "exists")
  /\ UNCHANGED <<serverVarsButPc, exc, client, sent, request_data, parsed,
                 ssf_path, io_failed, fsVars, pureVars>>

\* serve_static_file: open and read the file, build the 200 response; an
\* OSError (a directory, no permission, the file is gone) goes to its except.
SsfRead ==
  /\ pc = "ssf_open"
  /\ IF Readable(ssf_path)
     THEN /\ response' = FileResponse(ssf_path, fs[ssf_path].content)
          /\ events' = Append(events, "read")
          /\ pc' = "ssf_send"
          /\ UNCHANGED io_failed
     ELSE /\ io_failed' = TRUE
          /\ events' = Append(events, "open_failed")
          /\ pc' = "ssf_except"
          /\ UNCHANGED response
  /\ UNCHANGED <<serverVarsButPc, exc, client, sent, request_data, parsed,
                 ssf_path, found, fsVars, pureVars>>

\* serve_static_file: client_socket.sendall(response) in the try block.
SsfSend ==
  /\ pc = "ssf_send"
  /\ \E outcome \in Outcomes :
       SendAll(response, outcome, "hc_finally", "ssf_except", exc)
  /\ UNCHANGED <<serverVarsButPc, client, request_data, parsed, ssf_path,
                 found, io_failed, response, fsVars, pureVars>>

\* Mutant of SsfExcept: the except block sends the 404 response.
SsfExcept_Sends404 ==
  /\ pc = "ssf_except"
  /\ response' = NotFoundResponse
  /\ \E outcome \in Outcomes :
       SendAll(NotFoundResponse, outcome, "hc_finally", "hc_except", exc)
  /\ UNCHANGED <<serverVarsButPc, client, request_data, parsed, ssf_path,
                 found, io_failed, fsVars, pureVars>>

\* serve_static_file: its except block builds the 500 response and sends it;
\* an exception of this sendall leaves serve_static_file and is caught by
\* the except block of handle_client.
SsfExcept ==
  /\ pc = "ssf_except"
  /\ response' = ErrorResponse
  /\ \E outcome \in Outcomes :
       SendAll(ErrorResponse, outcome, "hc_finally", "hc_except", exc)
  /\ UNCHANGED <<serverVarsButPc, client, request_data, parsed, ssf_path,
                 found, io_failed, fsVars, pureVars>>

\* handle_client: its except block builds the 500 response and sends it; an
\* exception of this sendall leaves handle_client after the finally clause.
HcExcept ==
  /\ pc = "hc_except"
  /\ response' = ErrorResponse
  /\ \E outcome \in Outcomes :
       SendAll(ErrorResponse, outcome, "hc_finally", "hc_finally", "Exception")
  /\ UNCHANGED <<serverVarsButPc, client, request_data, parsed, ssf_path,
                 found, io_failed, fsVars, pureVars>>

\* Mutant of HcFinally: close is called after the try statement instead of in
\* its finally clause, so an exception leaving handle_client skips it.
HcFinally_CloseAfterTry ==
  /\ pc = "hc_finally"
  /\ IF exc = "none"
     THEN /\ client' = [client EXCEPT !.closes = @ + 1]
          /\ openConns' = openConns \ {client.id}
          /\ events' = Append(events, "close")
          /\ pc' = "accept"
          /\ UNCHANGED <<server_socket, stopCause>>
     ELSE /\ pc' = "terminated"
          /\ server_socket' = "closed"
          /\ stopCause' = IF exc = "KeyboardInterrupt" THEN "interrupted"
                          ELSE "handler_exception"
          /\ UNCHANGED <<client, openConns, events>>
  /\ UNCHANGED <<nconn, exc, sent, request_data, parsed, ssf_path, found,
                 io_failed, response, fsVars, pureVars>>

\* Mutant of HcFinally: the client socket is never closed.
HcFinally_NoClose ==
  /\ pc = "hc_finally"
  /\ events' = events
  /\ IF exc = "none"
     THEN /\ pc' = "accept"
          /\ UNCHANGED <<server_socket, stopCause>>
     ELSE /\ pc' = "terminated"
          /\ server_socket' = "closed"
          /\ stopCause' = IF exc = "KeyboardInterrupt" THEN "interrupted"
                          ELSE "handler_exception"
  /\ UNCHANGED <<nconn, openConns, client, exc, sent, request_data, parsed,
                 ssf_path, found, io_failed, response, fsVars, pureVars>>

\* handle_client: the finally clause closes the client socket; then either
\* the loop calls accept again, or the exception reaches __main__, whose
\* finally clause closes the listening socket.
HcFinally ==
  /\ pc = "hc_finally"
  /\ client' = [client EXCEPT !.closes = @ + 1]
  /\ openConns' = openConns \ {client.id}
  /\ events' = Append(events, "close")
  /\ IF exc = "none"
     THEN /\ pc' = "accept"
          /\ UNCHANGED <<server_socket, stopCause>>
     ELSE /\ pc' = "terminated"
          /\ server_socket' = "closed"
          /\ stopCause' = IF exc = "KeyboardInterrupt" THEN "interrupted"
                          ELSE "handler_exception"
  /\ UNCHANGED <<nconn, exc, sent, request_data, parsed, ssf_path, found,
                 io_failed, response, fsVars, pureVars>>

\* The environment removes a file.
Unlink ==
  /\ server_socket = "listening"
  /\ \E p \in FsPaths :
       /\ fs[p].kind = "file"
       /\ fs' = [fs EXCEPT ![p] = Absent]
  /\ UNCHANGED <<serverVars, handlerVars, pureVars>>

\* The environment takes the read permission of a file away.
Chmod ==
  /\ server_socket = "listening"
  /\ \E p \in FsPaths :
       /\ fs[p].kind = "file"
       /\ fs[p].readable
       /\ fs' = [fs EXCEPT ![p].readable = FALSE]
  /\ UNCHANGED <<serverVars, handlerVars, pureVars>>

Next ==
  \/ StartServer
  \/ Accept
  \/ AcceptStops
  \/ Recv
  \/ ParseAndRoute
  \/ SsfExists
  \/ SsfRead
  \/ SsfSend
  \/ SsfExcept
  \/ HcExcept
  \/ HcFinally
  \/ Unlink
  \/ Chmod

Spec == Init /\ [][Next]_vars

\* ------------------------------------- generate_response studied alone

GenCodes == {0, 100, 200, 201, 204, 301, 400, 403, 404, 500, 501, 503}
GenHeaders ==
  {<<>>,
   << <<ContentType, TextHtml>> >>,
   << <<ContentType, TextPlain>>, <<ContentLength, IntToStr(1)>> >>,
   << <<S("X-Empty"), S("")>>, <<S("Time"), S("12:30: 05")>> >>,
   << <<S("B"), S("2")>>, <<S("A"), S("1")>> >>,
   << <<S("a: b"), S("v")>> >>,
   << <<S("A"), S("1\r\nSet-Cookie: x")>> >>,
   << <<S("A"), S("1\r\nrest")>>, <<S("B"), S("2")>> >>,
   << <<S("A"), S("1\r\n")>>, <<S("B"), S("2")>> >>}
GenBodies == {<<>>, <<120>>, <<233, 10>>}
GenCalls == [status_code : GenCodes, headers : GenHeaders, body : GenBodies]

\* Some caller is about to call generate_response with arguments of GenCalls.
GenInit ==
  /\ server_socket = "listening"
  /\ pc = "accept"
  /\ exc = "none"
  /\ stopCause = "none"
  /\ nconn = 0
  /\ openConns = {}
  /\ client = NoClient
  /\ events = <<>>
  /\ sent = <<>>
  /\ request_data = <<>>
  /\ parsed = ParseError
  /\ ssf_path = <<>>
  /\ found = FALSE
  /\ io_failed = FALSE
  /\ response = <<>>
  /\ fs = InitialFs
  /\ call \in GenCalls
  /\ ret = NoRet

\* The call returns.
ApplyGenerate ==
  /\ ~ret.done
  /\ ret' = [done |-> TRUE,
             value |-> generate_response(call.status_code, call.headers, call.body)]
  /\ UNCHANGED <<call, serverVars, handlerVars, fsVars>>

\* The next call of the same process, with any arguments.
NextCall ==
  /\ ret.done
  /\ call' \in GenCalls
  /\ ret' = NoRet
  /\ UNCHANGED <<serverVars, handlerVars, fsVars>>

GenNext == ApplyGenerate \/ NextCall

SpecGen == GenInit /\ [][GenNext]_vars

\* ------------------------------------------ parse_request studied alone

\* Lines a client may send after the request line.
ParseLines == {S("A: 1"), S("A: x: y"), S("B: "), S("Host: a:b"),
               S("NoColon"), S("C:d")}
\* Up to two of them.
ParseLineSeqs ==
  {<<>>} \cup {<<l>> : l \in ParseLines}
         \cup {<<k, l>> : k \in ParseLines, l \in ParseLines}
\* What follows them: nothing, the empty line, the empty line and a body.
ParseEnds == {S(""), S("\r\n"), S("\r\nbody without colon"),
              S("\r\nX: 1\r\n\r\nmore")}

RECURSIVE JoinLines(_)
\* Each line followed by "\r\n".
JoinLines(ls) ==
  IF ls = <<>> THEN <<>> ELSE Head(ls) \o CRLF \o JoinLines(Tail(ls))

ParseTexts ==
  {S("GET /a.txt HTTP/1.1\r\n") \o JoinLines(ls) \o e :
     ls \in ParseLineSeqs, e \in ParseEnds}

\* handle_client is about to call parse_request with a text of ParseTexts.
ParseInit ==
  /\ server_socket = "listening"
  /\ pc = "accept"
  /\ exc = "none"
  /\ stopCause = "none"
  /\ nconn = 0
  /\ openConns = {}
  /\ client = NoClient
  /\ events = <<>>
  /\ sent = <<>>
  /\ request_data = <<>>
  /\ parsed = ParseError
  /\ ssf_path = <<>>
  /\ found = FALSE
  /\ io_failed = FALSE
  /\ response = <<>>
  /\ fs = InitialFs
  /\ call \in [request_data : ParseTexts]
  /\ ret = NoRet

\* The call returns (or raises: value.ok = FALSE).
ApplyParse ==
  /\ ~ret.done
  /\ ret' = [done |-> TRUE, value |-> parse_request(call.request_data)]
  /\ UNCHANGED <<call, serverVars, handlerVars, fsVars>>

\* The next call, with any text.
NextParse ==
  /\ ret.done
  /\ call' \in [request_data : ParseTexts]
  /\ ret' = NoRet
  /\ UNCHANGED <<serverVars, handlerVars, fsVars>>

ParseNext == ApplyParse \/ NextParse

SpecParse == ParseInit /\ [][ParseNext]_vars

\* ================================================================ claims

\* The expected wire bytes, written out.
Expected200Root ==
  S("HTTP/1.1 200 OK\r\nContent-Type: text/html\r\nContent-Length: 48\r\n\r\n<html><body><h1>Hello, world!</h1></body></html>")
Expected404 == S("HTTP/1.1 404 Not Found\r\n\r\n404 Not Found")
Expected500 == S("HTTP/1.1 500 Internal Server Error\r\n\r\n500 Internal Server Error")
BlankLine == S("\r\n\r\n")
ContentLengthPrefix == S("Content-Length: ")

\* handle_client has returned for the current connection.
HandlerDone == client.closes >= 1
\* Every sendall on the current connection returned.
NoSendFailed == \A i \in 1..Len(sent) : sent[i].ok
\* recv returned and the request went through decode and parse_request.
Parsed == Len(events) >= 2 /\ events[2] = "parse"
\* The handler has returned without an exception or interrupt and every
\* sendall succeeded.
CleanlyHandled == HandlerDone /\ exc = "none" /\ NoSendFailed

\* The bytes of a response after its first blank line.
BodyOf(resp) ==
  LET i == Find(resp, BlankLine)
  IN IF i = 0 THEN <<>> ELSE SubSeq(resp, i + 4, Len(resp))

\* The value of the Content-Length header line of a response, <<>> if none.
ContentLengthOf(resp) ==
  LET i == Find(resp, BlankLine)
      lines == Split(SubSeq(resp, 1, i - 1), CRLF)
      hit == {k \in 2..Len(lines) : StartsAt(lines[k], ContentLengthPrefix, 1)}
  IN IF hit = {} THEN <<>>
     ELSE LET k == CHOOSE k \in hit : TRUE
          IN SubSeq(lines[k], Len(ContentLengthPrefix) + 1, Len(lines[k]))

\* C1: exactly one response per request: when handle_client has returned for
\* a connection on which no sendall failed and nothing was interrupted,
\* exactly one sendall was made on it, whatever the request was.
C1_ExactlyOneResponse ==
  CleanlyHandled => Len(sent) = 1

\* C2: a well-formed request for path "/" is answered with the 200 response
\* carrying Content-Type text/html, Content-Length 48 and the greeting.
C2_RootGreeting ==
  (CleanlyHandled /\ Parsed /\ parsed.ok /\ parsed.path = SLASH)
    => sent = <<[data |-> Expected200Root, ok |-> TRUE]>>

\* C3: no failure while handling a connection ends the accept loop: the
\* listening socket is closed only after accept failed or the process was
\* interrupted.
C3_FailureContained ==
  server_socket = "closed" => stopCause \in {"accept_failed", "interrupted"}

\* C4: every accepted connection is closed exactly once before control leaves
\* handle_client: outside the handler no accepted connection is open, inside
\* it only the current one is, and close is never called twice.
C4_ClosedAfterHandling ==
  /\ client.closes <= 1
  /\ pc \in {"start", "accept", "terminated"} =>
       /\ openConns = {}
       /\ (nconn > 0 => client.closes = 1)
  /\ pc \notin {"start", "accept", "terminated"} =>
       /\ openConns = {client.id}
       /\ client.closes = 0

\* C4 witness: the sendall of handle_client's except block raised, the
\* exception left handle_client and stopped the server, and the connection
\* was closed all the same.
C4_Witness ==
  /\ stopCause = "handler_exception"
  /\ Len(sent) >= 1
  /\ ~sent[Len(sent)].ok
  /\ client.closes = 1
  /\ openConns = {}

\* C5: an existing readable file is answered with a body byte-identical to
\* the file and a Content-Length equal to the number of body bytes written.
C5_FileBodyIdentical ==
  (found /\ ~io_failed /\ Len(sent) >= 1 /\ sent[1].ok)
    => /\ BodyOf(sent[1].data) = InitialFs[ssf_path].content
       /\ ContentLengthOf(sent[1].data) = IntToStr(Len(BodyOf(sent[1].data)))

\* The request text is malformed: its first line is not three tokens
\* separated by single spaces, or a line before the first empty line has
\* no ": ".
Malformed(text) ==
  LET lines == Split(text, CRLF)
      empties == {i \in 2..Len(lines) : lines[i] = <<>>}
      last == IF empties = {} THEN Len(lines)
              ELSE (CHOOSE i \in empties : \A j \in empties : i <= j) - 1
  IN \/ Len(Split(lines[1], SP)) # 3
     \/ \E i \in 2..last : Find(lines[i], COLON_SP) = 0

NotFoundCase == Len(events) >= 3 /\ events[3] = "exists" /\ ~found

RoutedToStatic == Parsed /\ parsed.ok /\ parsed.path # SLASH

\* The number of "/" a path starts with.
LeadingSlashes(path) ==
  Cardinality({k \in 1..Len(path) : \A j \in 1..k : path[j] = 47})

\* C9 as claimed: the path given to serve_static_file is the request path
\* with exactly one leading "/" removed (none when it starts with none).
C9_StripsOneSlash ==
  RoutedToStatic
    => ssf_path = IF LeadingSlashes(parsed.path) >= 1
                  THEN SubSeq(parsed.path, 2, Len(parsed.path))
                  ELSE parsed.path

\* C9, amended: the path given to serve_static_file is the request path
\* with every leading "/" removed.
C9_StripsAllSlashes ==
  RoutedToStatic
    => /\ ssf_path = SubSeq(parsed.path, LeadingSlashes(parsed.path) + 1,
                            Len(parsed.path))
       /\ (ssf_path = <<>> \/ ssf_path[1] # 47)

\* C9 witness: a request path with two leading slashes has reached
\* serve_static_file as the relative path of the file.
C9_Witness ==
  /\ RoutedToStatic
  /\ parsed.path = S("//a.txt")
  /\ ssf_path = S("a.txt")
  /\ found

\* The first line of a response, its "\r\n" included.
StatusLineOf(resp) == SubSeq(resp, 1, Find(resp, CRLF) + 1)

\* C10: the status line generate_response writes is "HTTP/1.1 <code>
\* <reason>\r\n" with reason OK for 200, Not Found for 404, Internal Server
\* Error for 500 and Unknown Status for any other code, in every call of a
\* sequence of calls.
C10_StatusLine ==
  ret.done
    => StatusLineOf(ret.value) =
         IF call.status_code = 200 THEN S("HTTP/1.1 200 OK\r\n")
         ELSE IF call.status_code = 404 THEN S("HTTP/1.1 404 Not Found\r\n")
         ELSE IF call.status_code = 500
              THEN S("HTTP/1.1 500 Internal Server Error\r\n")
         ELSE S("HTTP/1.1 ") \o IntToStr(call.status_code)
              \o S(" Unknown Status\r\n")

\* C10 witness: a call with a code outside the table has returned.
C10_Witness ==
  /\ ret.done
  /\ call.status_code = 403
  /\ StatusLineOf(ret.value) = S("HTTP/1.1 403 Unknown Status\r\n")

\* The header mapping read back from a response the way parse_request reads
\* the headers of a request: the text is split on "\r\n" and the lines after
\* the first one are split at their first ": ", up to the first empty line.
HeadersReadBack(resp) ==
  ParseHeaders(Split(Utf8Decode(resp).text, CRLF), 2, <<>>)

\* A header mapping whose names hold neither ": " nor "\r\n" and whose
\* values hold no "\r\n".
PlainHeaders(headers) ==
  \A i \in 1..Len(headers) :
    /\ Find(headers[i][1], COLON_SP) = 0
    /\ Find(headers[i][1], CRLF) = 0
    /\ Find(headers[i][2], CRLF) = 0

\* C11 as claimed: the header block generate_response writes reads back as
\* the mapping it was given, entries and order, for any mapping.
C11_RoundTripAny ==
  ret.done => HeadersReadBack(ret.value) = [ok |-> TRUE, headers |-> call.headers]

\* C11, amended: the header block reads back as the mapping it was given,
\* entries and order, for every mapping whose names contain neither ": " nor
\* "\r\n" and whose values contain no "\r\n" (values may be empty and may
\* contain ":" and ": ").
C11_RoundTripPlain ==
  (ret.done /\ PlainHeaders(call.headers))
    => HeadersReadBack(ret.value) = [ok |-> TRUE, headers |-> call.headers]

\* C11 witness: a mapping with an empty value and a value holding ": " has
\* been written and read back.
C11_Witness ==
  /\ ret.done
  /\ call.headers = << <<S("X-Empty"), S("")>>, <<S("Time"), S("12:30: 05")>> >>
  /\ HeadersReadBack(ret.value).headers = call.headers

\* What a connection shows its client: the bytes of every sendall that
\* returned, and the number of closes.
Observed == [bytes |-> SelectSeq(sent, LAMBDA s : s.ok), closes |-> client.closes]

\* What is observed for a request path and what the file system showed for
\* it (the result of the existence check, whether open/read failed, the
\* bytes read): no case looks at the method, the version or the headers.
ObservedFor(path, wasFound, ioFailed, content) ==
  [bytes |->
     IF path = SLASH THEN <<>>
     ELSE IF ~wasFound THEN <<[data |-> Expected404, ok |-> TRUE]>>
     ELSE IF ioFailed THEN <<[data |-> Expected500, ok |-> TRUE]>>
     ELSE <<[data |-> FileResponse(LStrip(path, SLASH), content), ok |-> TRUE]>>,
   closes |-> 1]

\* C12: there is no method-based dispatch: what a well-formed request gets
\* (the bytes sent and the close) is a function of its path and of what the
\* file system shows for that path, whatever its method, version and headers.
C12_NoMethodDispatch ==
  (CleanlyHandled /\ Parsed /\ parsed.ok)
    => Observed = ObservedFor(parsed.path, found, io_failed,
                              IF found /\ ~io_failed
                              THEN InitialFs[ssf_path].content ELSE <<>>)

\* C12 witness: a POST over HTTP/1.0 with headers and a body has been
\* answered with the file, as a GET for the same path is.
C12_Witness ==
  /\ CleanlyHandled
  /\ Parsed
  /\ parsed.ok
  /\ parsed.method = S("POST")
  /\ parsed.http_version = S("HTTP/1.0")
  /\ Len(parsed.headers) >= 1
  /\ parsed.path = S("/a.txt")
  /\ Observed = [bytes |-> <<[data |-> FileResponse(S("a.txt"), InitialFs[S("a.txt")].content),
                            ok |-> TRUE]>>,
                 closes |-> 1]

\* C13: handling is sequential: at most one client connection is open in
\* any state, the open one is the one accepted last, and accept takes a new
\* connection only when the previous one has been read, answered or failed,
\* and closed (its close is the last operation recorded for it).
C13_Sequential ==
  /\ [](/\ Cardinality(openConns) <= 1
        /\ openConns \subseteq {nconn}
        /\ client.id = nconn)
  /\ [][nconn' # nconn =>
          /\ openConns = {}
          /\ nconn' = nconn + 1
          /\ openConns' = {nconn'}
          /\ (nconn > 0 =>
                /\ client.closes = 1
                /\ events[1] = "recv"
                /\ events[Len(events)] = "close")]_vars

\* C13 witness: the second connection is open and being read after the
\* first one was closed.
C13_Witness ==
  /\ nconn = 2
  /\ openConns = {2}
  /\ pc = "parse"

\* The lines of a request text between its request line and its first
\* empty line (all the lines after the request line when none is empty).
HeaderLinesOf(text) ==
  LET lines == Split(text, CRLF)
      empties == {i \in 2..Len(lines) : lines[i] = <<>>}
      last == IF empties = {} THEN Len(lines)
              ELSE (CHOOSE i \in empties : \A j \in empties : i <= j) - 1
  IN SubSeq(lines, 2, last)

\* The text of a line before, and after, its first ": ".
NameOf(line) == SubSeq(line, 1, Find(line, COLON_SP) - 1)
ValueOf(line) == SubSeq(line, Find(line, COLON_SP) + 2, Len(line))

\* C14: parse_request builds the header mapping from exactly the lines
\* between the request line and the first empty line: it fails exactly when
\* one of them has no ": "; otherwise the names are those before the first
\* ": " of each line, in the order of their first line, each with the text
\* after the first ": " of its last line; lines after the first empty line
\* add nothing and cannot make it fail.
C14_HeaderMapping ==
  ret.done =>
    LET hl == HeaderLinesOf(call.request_data)
        hs == ret.value.headers
        FirstLine(n) == CHOOSE i \in 1..Len(hl) :
                          /\ NameOf(hl[i]) = n
                          /\ \A j \in 1..(i - 1) : NameOf(hl[j]) # n
        LastLine(n) == CHOOSE i \in 1..Len(hl) :
                         /\ NameOf(hl[i]) = n
                         /\ \A j \in (i + 1)..Len(hl) : NameOf(hl[j]) # n
    IN /\ ret.value.ok = (\A i \in 1..Len(hl) : Find(hl[i], COLON_SP) > 0)
       /\ ret.value.ok =>
            /\ {hs[p][1] : p \in 1..Len(hs)} = {NameOf(hl[i]) : i \in 1..Len(hl)}
            /\ \A p, q \in 1..Len(hs) :
                 p < q => FirstLine(hs[p][1]) < FirstLine(hs[q][1])
            /\ \A p \in 1..Len(hs) : hs[p][2] = ValueOf(hl[LastLine(hs[p][1])])

\* C14 witness: a repeated name whose last value holds ": ", followed by the
\* empty line and a body line without ": ", has been parsed.
C14_Witness ==
  /\ ret.done
  /\ call.request_data =
       S("GET /a.txt HTTP/1.1\r\nA: 1\r\nA: x: y\r\n\r\nbody without colon")
  /\ ret.value.ok
  /\ ret.value.headers = << <<S("A"), S("x: y")>> >>

\* C15: a failure of accept or of the socket setup ends the server with the
\* listening socket closed: when the server has stopped for one of these
\* causes no socket created for listening is left open, and nothing is
\* accepted afterwards.
C15_SetupOrAcceptFailureCloses ==
  /\ (pc = "terminated" /\ stopCause \in {"accept_failed", "setup_failed"})
       => server_socket \in {"closed", "none"}
  /\ pc = "terminated" => openConns = {}

\* C16: a connection never has more than one response started on it: at
\* most one sendall is made per connection, whether it returns or raises.
C16_AtMostOneSendall ==
  Len(sent) <= 1

\* The socket operations recorded for the current connection.
SocketOps == {"recv", "sendall", "close"}

\* C17: nothing is done on a client socket after its close, and recv is
\* called exactly once per connection, for at most 1024 bytes: close is the
\* last operation recorded, the first one is the only recv, and what it
\* returned is no longer than 1024 bytes and is the start of what was sent.
C17_NoUseAfterClose ==
  /\ \A i \in 1..Len(events) : events[i] = "close" => i = Len(events)
  /\ HandlerDone => (Len(events) >= 2 /\ events[Len(events)] = "close")
  /\ Cardinality({i \in 1..Len(events) : events[i] = "close"}) = client.closes
  /\ Cardinality({i \in 1..Len(events) : events[i] = "recv"}) <= 1
  /\ Len(events) >= 1 => events[1] = "recv"
  /\ Len(request_data) <= 1024
  /\ request_data = SubSeq(client.inbound, 1, Len(request_data))

\* C17 witness: a request longer than 1024 bytes has been read once, cut at
\* 1024 bytes, answered, and the connection closed.
C17_Witness ==
  /\ HandlerDone
  /\ Len(client.inbound) > 1024
  /\ Len(request_data) = 1024
  /\ events = <<"recv", "parse", "exists", "read", "sendall", "close">>

\* The file-system operations recorded for the current connection.
FsOps == {"exists", "read", "open_failed"}
FsConsulted == \E i \in 1..Len(events) : events[i] \in FsOps

\* C18: the file system is consulted only for a well-formed request to a
\* path other than "/": whenever an existence check or a file open is
\* recorded for a connection, its request was parsed and its path is not
\* "/"; and no step of the server changes the file system, which changes
\* only by the environment's own steps, which leave the server alone.
C18_FsOnlyForStaticPaths ==
  /\ [](FsConsulted => (Parsed /\ parsed.ok /\ parsed.path # SLASH))
  /\ [][fs' # fs => UNCHANGED <<serverVars, handlerVars>>]_vars

\* C18 witness: a request for "/" has been handled to its close with no
\* file-system operation.
C18_Witness ==
  /\ HandlerDone
  /\ parsed.ok
  /\ parsed.path = SLASH
  /\ events = <<"recv", "parse", "close">>

====
